---- MODULE Spec2Model ----
(***************************************************************************)
(* Colligo (src/cmd/main.go): one run of the tool.  main() creates the     *)
(* output artifact, wraps it in a bufio.Writer, walks the repository with  *)
(* filepath.WalkDir and calls writeFileContent for every entry it does not *)
(* skip, then flushes.  Bytes are modelled as TLA+ strings, so markers and *)
(* paths are compared byte for byte.                                       *)
(***************************************************************************)
EXTENDS Integers, Sequences, FiniteSets, TLC

(***************************************************************************)
(* Bounds of the model.                                                    *)
(***************************************************************************)
\* capacity of the bufio.Writer buffer (4096 in the library), scaled down so
\* that the buffer fills and flushes in the middle of a walk
BufSize == 16
\* the disk-full points tried are the multiples of QuotaStep up to QuotaSteps
QuotaStep == 23
QuotaSteps == 5
\* longest name fed to isHidden in SpecHidden
MaxNameLen == 4

NoQuota == -1

Min(a, b) == IF a <= b THEN a ELSE b

(***************************************************************************)
(* Strings and paths (Unix separator).                                     *)
(***************************************************************************)
\* s[from:], 0-based as in Go
Drop(s, n) == SubSeq(s, n + 1, Len(s))
\* s[:n]
Take(s, n) == SubSeq(s, 1, n)

IsPrefix(p, s) == Len(p) <= Len(s) /\ Take(s, Len(p)) = p

RECURSIVE JoinPath(_)
\* filepath.Join of path elements
JoinPath(comps) ==
    IF Len(comps) = 0 THEN ""
    ELSE IF Len(comps) = 1 THEN comps[1]
    ELSE comps[1] \o "/" \o JoinPath(Tail(comps))

RECURSIVE SplitPath(_, _)
\* the elements of a slash-separated path; cur is the element being read
SplitPath(s, cur) ==
    IF Len(s) = 0 THEN <<cur>>
    ELSE IF Head(s) = "/" THEN <<cur>> \o SplitPath(Tail(s), "")
    ELSE SplitPath(Tail(s), cur \o Head(s))

RECURSIVE Resolve(_, _)
\* lexical resolution of the elements rest against the directory base:
\* "" and "." are dropped, ".." removes the last element
Resolve(base, rest) ==
    IF Len(rest) = 0 THEN base
    ELSE IF Head(rest) = "" \/ Head(rest) = "." THEN Resolve(base, Tail(rest))
    ELSE IF Head(rest) = ".."
         THEN Resolve(IF Len(base) = 0 THEN base ELSE SubSeq(base, 1, Len(base) - 1),
                      Tail(rest))
    ELSE Resolve(Append(base, Head(rest)), Tail(rest))

\* an absolute path as the string the program sees
AbsString(comps) == "/" \o JoinPath(comps)

\* filepath.Rel(base, target) for a target at or below base
Rel(base, target) ==
    IF Len(target) = Len(base) THEN "."
    ELSE JoinPath(SubSeq(target, Len(base) + 1, Len(target)))

\* isHidden taking the empty name for hidden
isHiddenNoEmptyCheck(name) == Len(name) = 0 \/ Head(name) = "."
\* src/cmd/main.go isHidden: strings.HasPrefix(name, ".")
isHidden(name) == IsPrefix(".", name)

(***************************************************************************)
(* The buffered writer over the output file (bufio.NewWriter(outFile)).    *)
(* A writer is [buf, file, err]: the buffered bytes, the bytes the file    *)
(* holds, and the sticky write error.  The file accepts bytes up to the    *)
(* disk quota q (NoQuota: it never fails).  Only a failed write to the     *)
(* file sets err; a failure to read the source of a copy does not.         *)
(***************************************************************************)
NewWriter == [buf |-> "", file |-> "", err |-> FALSE]

Available(w) == BufSize - Len(w.buf)

\* the bytes the sink has received, flushed or not
SinkBytes(w) == w.file \o w.buf

\* number of bytes of s the file accepts
Accepted(file, s, q) ==
    IF q = NoQuota THEN Len(s)
    ELSE IF q <= Len(file) THEN 0
    ELSE Min(Len(s), q - Len(file))

\* a flush that empties the buffer without writing it
FlushDropsBuffer(w, q) == [w EXCEPT !.buf = ""]
\* bufio.Writer.Flush: a short write keeps the unwritten bytes and sets err
Flush(w, q) ==
    IF w.err \/ Len(w.buf) = 0 THEN w
    ELSE LET n == Accepted(w.file, w.buf, q)
         IN  [buf  |-> Drop(w.buf, n),
              file |-> w.file \o Take(w.buf, n),
              err  |-> n < Len(w.buf)]

RECURSIVE WriteString(_, _, _)
\* bufio.Writer.WriteString: fill the buffer and flush while s does not fit
\* (an empty buffer hands a large s to the file directly); nothing is
\* accepted once err is set.  The call returns an error iff err is set after.
WriteString(w, s, q) ==
    IF Len(s) > Available(w) /\ ~w.err
    THEN IF Len(w.buf) = 0
         THEN LET n == Accepted(w.file, s, q)
              IN  WriteString([w EXCEPT !.file = @ \o Take(s, n), !.err = n < Len(s)],
                              Drop(s, n), q)
         ELSE LET n == Available(w)
              IN  WriteString(Flush([w EXCEPT !.buf = @ \o Take(s, n)], q),
                              Drop(s, n), q)
    ELSE IF w.err THEN w
    ELSE [w EXCEPT !.buf = @ \o s]

\* number of bytes one read of the source delivers: what the buffer has
\* room for, up to the end of the source or to the offset where reading fails
ChunkLen(w, src, off, failAt) ==
    Min(Available(w),
        (IF failAt >= off /\ failAt < Len(src) THEN failAt ELSE Len(src)) - off)

RECURSIVE CopyLoop(_, _, _, _, _, _)
\* one round of the copy on a buffer with room, src being the bytes the
\* source holds now
CopyChunk(w, src, data, self, off, failAt, q) ==
    IF w.err THEN [w |-> w, err |-> "write"]
    ELSE IF off = failAt THEN [w |-> w, err |-> "read"]
    ELSE IF off = Len(src) THEN [w |-> w, err |-> "nil"]
    ELSE IF self /\ q = NoQuota /\ Len(src) - off >= Available(w)
         THEN [w |-> w, err |-> "hang"]
    ELSE CopyLoop([w EXCEPT !.buf = @ \o SubSeq(src, off + 1,
                                               off + ChunkLen(w, src, off, failAt))],
                  data, self, off + ChunkLen(w, src, off, failAt), failAt, q)

\* the source of the copy: the output file's own bytes when self
CopyRead(w, data, self, off, failAt, q) ==
    CopyChunk(w, IF self THEN w.file ELSE data, data, self, off, failAt, q)

\* io.Copy(writer, file): the file is read into the free part of the buffer
\* and the buffer is flushed when full, until end of file.  data is the
\* content of the source, off the read offset, failAt the offset at which
\* reading fails (-1: never).  err is "nil", "read", "write", or "hang" when
\* the copy never ends.
CopyLoop(w, data, self, off, failAt, q) ==
    CopyRead(IF Available(w) = 0 THEN Flush(w, q) ELSE w, data, self, off, failAt, q)

\* at end of file a buffer that is exactly full is flushed
CopyEnd(c, q) ==
    IF c.err = "nil" /\ Available(c.w) = 0
    THEN [w |-> Flush(c.w, q), err |-> IF Flush(c.w, q).err THEN "write" ELSE "nil"]
    ELSE c

\* bufio.Writer.ReadFrom as io.Copy uses it
ReadFrom(w, data, self, failAt, q) ==
    IF w.err THEN [w |-> w, err |-> "write"]
    ELSE CopyEnd(CopyLoop(w, data, self, 0, failAt, q), q)

(***************************************************************************)
(* writeFileContent (src/cmd/main.go:144-183).  The result of a call is    *)
(* the writer after it, the error returned ("nil", "header", "open",       *)
(* "errline", "copy", "footer", or "hang" when the call does not return),  *)
(* what was logged, the input handles left open and the bytes the file     *)
(* held when it was opened.                                                *)
(***************************************************************************)
Header(relativePath) == "\n\n# BEGIN FILE: " \o relativePath \o "\n\n"
\* the end marker without its trailing blank line
FooterOneNewline(relativePath) == "\n\n# END FILE: " \o relativePath \o "\n"
Footer(relativePath) == "\n\n# END FILE: " \o relativePath \o "\n\n"
\* the text of the *PathError os.Open returns for an unreadable file
OpenError(filePath) == "open " \o filePath \o ": permission denied"
\* the diagnostic line without its newline
ErrorLineNoNewline(relativePath, e) == "# Error reading " \o relativePath \o ": " \o e
ErrorLine(relativePath, e) == "# Error reading " \o relativePath \o ": " \o e \o "\n"

\* main.go:178-182, w being the writer after the footer was written
writeFooterResult(w, d) ==
    IF w.err
    THEN [w |-> w, ret |-> "footer", open |-> 0, data |-> d,
          log |-> <<"Error writing footer">>]
    ELSE [w |-> w, ret |-> "nil", open |-> 0, data |-> d, log |-> <<>>]

\* a copy failure that returns without closing the input file
copyResultLeaksHandle(c, d, relativePath, q) ==
    IF c.err = "hang"
    THEN [w |-> c.w, ret |-> "hang", open |-> 1, data |-> d, log |-> <<>>]
    ELSE IF c.err # "nil"
    THEN [w |-> c.w, ret |-> "copy", open |-> 1, data |-> d,
          log |-> <<"Error copying file content">>]
    ELSE writeFooterResult(WriteString(c.w, Footer(relativePath), q), d)
\* a copy failure after which the end marker is written all the same
copyResultFooterAfterError(c, d, relativePath, q) ==
    IF c.err = "hang"
    THEN [w |-> c.w, ret |-> "hang", open |-> 1, data |-> d, log |-> <<>>]
    ELSE IF c.err # "nil"
    THEN [w |-> WriteString(c.w, Footer(relativePath), q), ret |-> "copy",
          open |-> 0, data |-> d, log |-> <<"Error copying file content">>]
    ELSE writeFooterResult(WriteString(c.w, Footer(relativePath), q), d)
\* main.go:171-182, c being the outcome of io.Copy
copyResult(c, d, relativePath, q) ==
    IF c.err = "hang"
    THEN [w |-> c.w, ret |-> "hang", open |-> 1, data |-> d, log |-> <<>>]
    ELSE IF c.err # "nil"
    THEN [w |-> c.w, ret |-> "copy", open |-> 0, data |-> d,
          log |-> <<"Error copying file content">>]
    ELSE writeFooterResult(WriteString(c.w, Footer(relativePath), q), d)

\* main.go:157-162, w being the writer after the error line was written
openErrorResult(w) ==
    IF w.err
    THEN [w |-> w, ret |-> "errline", open |-> 0, data |-> "",
          log |-> <<"Error opening file", "Error writing error message to output">>]
    ELSE [w |-> w, ret |-> "open", open |-> 0, data |-> "",
          log |-> <<"Error opening file">>]

\* main.go:147-182, w being the writer after the header was written
headerResult(w, src, filePath, relativePath, q) ==
    IF w.err
    THEN [w |-> w, ret |-> "header", open |-> 0, data |-> "",
          log |-> <<"Error writing header">>]
    ELSE IF src.openFails
    THEN openErrorResult(WriteString(w, ErrorLine(relativePath, OpenError(filePath)), q))
    ELSE copyResult(ReadFrom(w, src.data, src.self, src.failAt, q),
                    IF src.self THEN w.file ELSE src.data, relativePath, q)

\* src is the file at filePath: [openFails, data, self, failAt]
writeFileContent(w, src, filePath, relativePath, q) ==
    headerResult(WriteString(w, Header(relativePath), q), src, filePath, relativePath, q)

(***************************************************************************)
(* The environment of a run: the tree under the repository root, the       *)
(* command line and the faults the file system produces.                   *)
(***************************************************************************)
\* The entries a tree may hold, in the order filepath.WalkDir visits them
\* (pre-order, each directory's entries sorted by name); comps are the path
\* elements below the root.
Universe ==
    << [comps |-> <<>>,               kind |-> "dir"],
       [comps |-> <<".c">>,           kind |-> "dir"],
       [comps |-> <<".c", "x">>,      kind |-> "file"],
       [comps |-> <<".github">>,      kind |-> "dir"],
       [comps |-> <<".github", "t">>, kind |-> "file"],
       [comps |-> <<".s">>,           kind |-> "file"],
       [comps |-> <<"a">>,            kind |-> "file"],
       [comps |-> <<"l">>,            kind |-> "symlink"],
       [comps |-> <<"o">>,            kind |-> "file"],
       [comps |-> <<"z">>,            kind |-> "file"] >>

NodeIds == 1 .. Len(Universe)
RootNode == 1
LinkNode == 8
\* what the symbolic link l points to when it resolves
LinkFileTarget == 7
LinkDirTarget == 4

IsPrefixSeq(p, t) == Len(p) <= Len(t) /\ SubSeq(t, 1, Len(p)) = p
\* node j lies strictly beneath node i
Beneath(j, i) ==
    /\ Len(Universe[j].comps) > Len(Universe[i].comps)
    /\ IsPrefixSeq(Universe[i].comps, Universe[j].comps)

\* the working directory and the resolved root (filepath.Abs(filepath.Clean(repo)))
Cwd(e) == IF e.cwdAtRoot THEN <<"w", e.rootName>> ELSE <<"w">>
RepoArg(e) == IF e.cwdAtRoot THEN "." ELSE e.rootName
RootAbs(e) == Resolve(Cwd(e), SplitPath(RepoArg(e), ""))

\* where os.Create(outputFile) puts the artifact
ArtifactAbs(e) ==
    Resolve(IF IsPrefix("/", e.outputFile) THEN <<>> ELSE Cwd(e),
            SplitPath(e.outputFile, ""))
ArtifactInTree(e) ==
    /\ IsPrefixSeq(RootAbs(e), ArtifactAbs(e))
    /\ Len(ArtifactAbs(e)) > Len(RootAbs(e))
\* the entry of the tree the artifact is, 0 when it is none of them
ArtifactNode(e) ==
    IF \E i \in NodeIds : RootAbs(e) \o Universe[i].comps = ArtifactAbs(e)
    THEN CHOOSE i \in NodeIds : RootAbs(e) \o Universe[i].comps = ArtifactAbs(e)
    ELSE 0
\* os.Create succeeds on a file path whose directory exists
CreateSucceeds(e) ==
    IF IsPrefixSeq(RootAbs(e), ArtifactAbs(e))
    THEN ArtifactNode(e) # 0 /\ Universe[ArtifactNode(e)].kind = "file"
    ELSE /\ Len(ArtifactAbs(e)) >= 1
         /\ SubSeq(ArtifactAbs(e), 1, Len(ArtifactAbs(e)) - 1) \in {<<>>, <<"w">>}

\* the entries the tree holds once the artifact has been created
Present(e, i) ==
    CASE i = LinkNode -> e.link # "none"
      [] Universe[i].comps = <<"o">> -> e.hasOut \/ ArtifactNode(e) = i
      [] OTHER -> TRUE

Content(e, i) ==
    CASE Universe[i].comps = <<".c", "x">>      -> "x"
      [] Universe[i].comps = <<".github", "t">> -> "y"
      [] Universe[i].comps = <<".s">>           -> "s"
      [] Universe[i].comps = <<"a">>            -> e.contentA
      [] Universe[i].comps = <<"o">>            -> "old"
      [] OTHER                                  -> ""

\* the node a path resolves to (filepath.EvalSymlinks), 0 when it fails
Resolved(e, i) ==
    IF Universe[i].kind # "symlink" THEN i
    ELSE CASE e.link = "file" -> LinkFileTarget
           [] e.link = "dir"  -> LinkDirTarget
           [] OTHER           -> 0

\* what os.Open and reading give for node i: reading a directory fails at once
Source(e, i) ==
    IF Universe[i].kind = "dir"
    THEN [openFails |-> FALSE, data |-> "", self |-> FALSE, failAt |-> 0]
    ELSE [openFails |-> e.fault.kind = "open" /\ e.fault.node = i,
          data      |-> Content(e, i),
          self      |-> ArtifactNode(e) = i,
          failAt    |-> IF e.fault.kind = "read" /\ e.fault.node = i
                        THEN e.fault.at ELSE -1]

RECURSIVE PreOrder(_, _)
\* the entries of the tree from node i on, in visiting order
PreOrder(e, i) ==
    IF i > Len(Universe) THEN <<>>
    ELSE (IF Present(e, i) THEN <<i>> ELSE <<>>) \o PreOrder(e, i + 1)

RECURSIVE Without(_, _)
\* todo without the entries beneath directory i
Without(todo, i) ==
    IF Len(todo) = 0 THEN <<>>
    ELSE (IF Head(todo) > 0 /\ Beneath(Head(todo), i) THEN <<>> ELSE <<Head(todo)>>)
         \o Without(Tail(todo), i)

(***************************************************************************)
(* The WalkDir callback (src/cmd/main.go:71-122) on entry i.               *)
(***************************************************************************)
\* d.Name(): the root's entry carries the base name of the root path
EntryName(e, i) ==
    IF i = RootNode THEN e.rootName
    ELSE Universe[i].comps[Len(Universe[i].comps)]

RelativePath(e, i) == Rel(RootAbs(e), RootAbs(e) \o Universe[i].comps)

\* main.go:99, the entry is taken for the output file
IsOutputFile(e, i) == RelativePath(e, i) = e.outputFile

\* main.go:105, the directory is not descended into
SkipsDir(name) == isHidden(name) /\ name # ".github"

\* a callback that hands the error of writeFileContent to WalkDir
AfterSerializeReturnsErr(ret) ==
    IF ret = "hang" THEN "hang" ELSE IF ret = "nil" THEN "nil" ELSE "err"
\* main.go:117-121, what the callback returns after writeFileContent returned ret
AfterSerialize(ret) == IF ret = "hang" THEN "hang" ELSE "nil"

\* main.go:85-89, what the callback returns when EvalSymlinks fails
OnSymlinkError == "err"

\* main.go:116-121, f being the outcome of writeFileContent on node r for
\* entry i
Serialized(f, w, i, r, e) ==
    [ret  |-> AfterSerialize(f.ret),
     w    |-> f.w,
     log  |-> f.log \o (IF f.ret \in {"nil", "hang"} THEN <<>>
                        ELSE <<"Error processing file">>),
     call |-> << [node |-> i, rel |-> RelativePath(e, i),
                  path |-> AbsString(RootAbs(e) \o Universe[r].comps),
                  ret |-> f.ret, data |-> f.data, self |-> Source(e, r).self,
                  open |-> f.open, werr |-> f.w.err,
                  from |-> Len(SinkBytes(w)), to |-> Len(SinkBytes(f.w))] >>]

\* the callback on entry i whose path resolved to node r (0: not resolved)
CallbackOn(e, w, i, r, none) ==
    IF r = 0
    THEN [none EXCEPT !.ret = OnSymlinkError,
                      !.log = <<"Failed to evaluate symbolic link">>]
    ELSE IF IsOutputFile(e, i) THEN none
    ELSE IF Universe[i].kind = "dir"
    THEN IF SkipsDir(EntryName(e, i)) THEN [none EXCEPT !.ret = "SkipDir"] ELSE none
    ELSE IF isHidden(EntryName(e, i)) THEN none
    ELSE Serialized(writeFileContent(w, Source(e, r),
                                     AbsString(RootAbs(e) \o Universe[r].comps),
                                     RelativePath(e, i), e.quota),
                    w, i, r, e)

\* The result: what the callback returns ("nil", "SkipDir", "err", or "hang"
\* when it does not return), the writer after it, the lines logged and the
\* writeFileContent call made, if any.
Callback(e, w, i) ==
    CallbackOn(e, w, i, Resolved(e, i),
               [ret |-> "nil", w |-> w, log |-> <<>>, call |-> <<>>])

(***************************************************************************)
(* State.                                                                  *)
(***************************************************************************)
VARIABLES
    env,       \* the environment of the run
    pc,        \* "start", "walk", "after" (the walk returned), "exited", "hung"
    todo,      \* entries WalkDir has still to visit; -i: report ReadDir error of i
    walkErr,   \* filepath.WalkDir returned an error
    writer,    \* the bufio.Writer and the output file under it
    created,   \* os.Create succeeded
    closed,    \* outFile.Close() has run
    exitCode,  \* -1 while running
    log,       \* the messages logged
    visited,   \* the entries the callback has been called on, in order
    calls,     \* the writeFileContent calls made, in order
    hname,     \* SpecHidden: the name under test
    hres       \* SpecHidden: <<>>, or <<r>> once isHidden(hname) returned r

vars == <<env, pc, todo, walkErr, writer, created, closed, exitCode, log,
          visited, calls, hname, hres>>

RootNames == {"p", ".h"}
Links == {"none", "broken", "file", "dir"}
Contents == {"hello", "\n#\n"}
OutputFiles(rootName) == {"o", "./o", ".c", "../q", JoinPath(<<rootName, "o">>)}
NoFault == [kind |-> "none", node |-> 0, at |-> 0]
Faults ==
    {NoFault}
    \cup {[kind |-> "open", node |-> n, at |-> 0] : n \in {7, 10}}
    \cup {[kind |-> "read", node |-> 7, at |-> k] : k \in {0, 2}}
    \cup {[kind |-> "readdir", node |-> 4, at |-> 0]}
Quotas == {NoQuota} \cup {k * QuotaStep : k \in 0 .. QuotaSteps}

Envs ==
    {e \in [rootName : RootNames, link : Links, hasOut : BOOLEAN,
            contentA : Contents, cwdAtRoot : BOOLEAN,
            outputFile : UNION {OutputFiles(n) : n \in RootNames},
            fault : Faults, quota : Quotas] :
        e.outputFile \in OutputFiles(e.rootName)}

Init ==
    /\ env \in Envs
    /\ pc = "start"
    /\ todo = <<>>
    /\ walkErr = FALSE
    /\ writer = NewWriter
    /\ created = FALSE
    /\ closed = FALSE
    /\ exitCode = -1
    /\ log = <<>>
    /\ visited = <<>>
    /\ calls = <<>>
    /\ hname = ""
    /\ hres = <<>>

(***************************************************************************)
(* main.go:17-68: the output file is created and wrapped.                  *)
(***************************************************************************)
Start ==
    /\ pc = "start"
    /\ IF CreateSucceeds(env)
       THEN /\ created' = TRUE
            /\ pc' = "walk"
            /\ todo' = PreOrder(env, RootNode)
            /\ UNCHANGED <<exitCode, log>>
       ELSE /\ log' = Append(log, "Error creating output file")
            /\ exitCode' = 1
            /\ pc' = "exited"
            /\ UNCHANGED <<created, todo>>
    /\ UNCHANGED <<env, walkErr, writer, closed, visited, calls, hname, hres>>

(***************************************************************************)
(* One step of filepath.WalkDir: the callback runs on the next entry.      *)
(***************************************************************************)
\* what WalkDir has left to visit after the callback returned ret on entry i
NextTodo(e, i, ret, rest) ==
    IF ret = "SkipDir" THEN Without(rest, i)
    ELSE IF /\ ret = "nil"
            /\ Universe[i].kind = "dir"
            /\ e.fault.kind = "readdir"
            /\ e.fault.node = i
         THEN <<-i>> \o Without(rest, i)
    ELSE rest

\* the walk after the callback returned c on entry i
WalkStep(i, c, next) ==
    /\ writer' = c.w
    /\ log' = log \o c.log
    /\ visited' = Append(visited, i)
    /\ calls' = calls \o c.call
    /\ walkErr' = (c.ret = "err")
    /\ todo' = next
    /\ pc' = IF c.ret = "hang" THEN "hung"
             ELSE IF c.ret = "err" \/ Len(next) = 0 THEN "after"
             ELSE "walk"

VisitEntry(i, c) == WalkStep(i, c, NextTodo(env, i, c.ret, Tail(todo)))

Visit ==
    /\ pc = "walk"
    /\ Len(todo) > 0
    /\ Head(todo) > 0
    /\ VisitEntry(Head(todo), Callback(env, writer, Head(todo)))
    /\ UNCHANGED <<env, created, closed, exitCode, hname, hres>>

\* main.go:72-75: WalkDir reports the ReadDir error of a directory
VisitError ==
    /\ pc = "walk"
    /\ Len(todo) > 0
    /\ Head(todo) < 0
    /\ log' = Append(log, "Error accessing path")
    /\ walkErr' = TRUE
    /\ pc' = "after"
    /\ todo' = Tail(todo)
    /\ UNCHANGED <<env, writer, created, closed, exitCode, visited, calls,
                   hname, hres>>

(***************************************************************************)
(* main.go:124-136 and the deferred Close of main.go:62-66.  os.Exit does  *)
(* not run deferred functions.                                             *)
(***************************************************************************)
ClosedOnExit(code) == code = 0

\* an end of run that reports success whatever the final flush returned
FinishIgnoresFlushError ==
    /\ pc = "after"
    /\ LET f    == Flush(writer, env.quota)
           code == IF walkErr THEN 1 ELSE 0
       IN  /\ writer' = IF walkErr THEN writer ELSE f
           /\ log' = Append(log, IF walkErr THEN "Error walking the path"
                                 ELSE "Successfully combined files")
           /\ exitCode' = code
           /\ closed' = ClosedOnExit(code)
    /\ pc' = "exited"
    /\ UNCHANGED <<env, todo, walkErr, created, visited, calls, hname, hres>>

Finish ==
    /\ pc = "after"
    /\ LET f    == Flush(writer, env.quota)
           code == IF walkErr \/ f.err THEN 1 ELSE 0
       IN  /\ writer' = IF walkErr THEN writer ELSE f
           /\ log' = Append(log, IF walkErr THEN "Error walking the path"
                                 ELSE IF f.err THEN "Error flushing writer"
                                 ELSE "Successfully combined files")
           /\ exitCode' = code
           /\ closed' = ClosedOnExit(code)
    /\ pc' = "exited"
    /\ UNCHANGED <<env, todo, walkErr, created, visited, calls, hname, hres>>

Next == Start \/ Visit \/ VisitError \/ Finish

Spec == Init /\ [][Next]_vars

(***************************************************************************)
(* isHidden on its own: every name up to MaxNameLen over HiddenAlphabet.   *)
(***************************************************************************)
HiddenAlphabet == {".", "a", "g"}

RECURSIVE Names(_)
Names(n) ==
    IF n = 0 THEN {""}
    ELSE LET S == Names(n - 1)
         IN  S \cup {t \o c : t \in S, c \in HiddenAlphabet}

InitHidden ==
    /\ env = [rootName |-> "p", link |-> "none", hasOut |-> FALSE,
              contentA |-> "hello", cwdAtRoot |-> TRUE, outputFile |-> "o",
              fault |-> NoFault, quota |-> NoQuota]
    /\ pc = "hidden"
    /\ todo = <<>>
    /\ walkErr = FALSE
    /\ writer = NewWriter
    /\ created = FALSE
    /\ closed = FALSE
    /\ exitCode = -1
    /\ log = <<>>
    /\ visited = <<>>
    /\ calls = <<>>
    /\ hname \in Names(MaxNameLen)
    /\ hres = <<>>

ApplyIsHidden ==
    /\ pc = "hidden"
    /\ hres = <<>>
    /\ hres' = <<isHidden(hname)>>
    /\ UNCHANGED <<env, pc, todo, walkErr, writer, created, closed, exitCode,
                   log, visited, calls, hname>>

NextHidden == ApplyIsHidden

SpecHidden == InitHidden /\ [][NextHidden]_vars

(***************************************************************************)
(* Properties.                                                             *)
(***************************************************************************)
Sink == SinkBytes(writer)
CallIds == 1 .. Len(calls)
\* the bytes call k appended to the sink
Appended(k) == SubSeq(Sink, calls[k].from + 1, calls[k].to)

\* C1: a writeFileContent call that returns no error appends exactly
\* "\n\n# BEGIN FILE: " + P + "\n\n" + C + "\n\n# END FILE: " + P + "\n\n",
\* C being the bytes of the file, empty or not.
C1_RoundTrip ==
    \A k \in CallIds :
        calls[k].ret = "nil" =>
            Appended(k) = "\n\n# BEGIN FILE: " \o calls[k].rel \o "\n\n"
                          \o calls[k].data
                          \o "\n\n# END FILE: " \o calls[k].rel \o "\n\n"

\* a run that serialized an empty file and a non-empty file without error
C1_Witness ==
    /\ \E k \in CallIds : calls[k].ret = "nil" /\ calls[k].data = ""
    /\ \E k \in CallIds : calls[k].ret = "nil" /\ Len(calls[k].data) > 1

\* C10: isHidden(n) is true exactly when n begins with "."; it is false for
\* the empty name.
C10_IsHidden ==
    hres # <<>> =>
        /\ hres[1] = (Len(hname) > 0 /\ SubSeq(hname, 1, 1) = ".")
        /\ (hname = "" => hres[1] = FALSE)

\* isHidden has been applied to the empty name
C10_Witness == hres # <<>> /\ hname = ""

Logged(m) == \E n \in 1 .. Len(log) : log[n] = m
Visited(i) == \E n \in 1 .. Len(visited) : visited[n] = i
\* entry j is in the same directory as entry i and is visited after it
SiblingAfter(i, j) ==
    /\ j > i
    /\ Present(env, j)
    /\ Len(Universe[j].comps) = Len(Universe[i].comps)
    /\ Len(Universe[i].comps) > 0
    /\ SubSeq(Universe[j].comps, 1, Len(Universe[j].comps) - 1)
         = SubSeq(Universe[i].comps, 1, Len(Universe[i].comps) - 1)
\* the run can produce no error other than a symlink resolution failure
OnlySymlinkFaults ==
    /\ env.fault = NoFault
    /\ env.quota = NoQuota
    /\ env.link \in {"none", "broken"}
    /\ ArtifactNode(env) = 0

\* C2: a failed symlink resolution skips that entry only: the siblings after
\* it are still visited and serialized and the run does not exit non-zero
\* because of it.
C2_SymlinkErrorTolerated ==
    (pc = "exited" /\ OnlySymlinkFaults /\ Logged("Failed to evaluate symbolic link")) =>
        /\ \A j \in NodeIds : SiblingAfter(LinkNode, j) => Visited(j)
        /\ \E k \in CallIds : calls[k].rel = "z" /\ calls[k].ret = "nil"
        /\ exitCode = 0

\* a directory other than ".github" whose name starts with "."
HiddenDir(i) ==
    /\ Universe[i].kind = "dir"
    /\ SubSeq(EntryName(env, i), 1, 1) = "."
    /\ EntryName(env, i) # ".github"
\* entry j is at or beneath directory i
Under(j, i) == j = i \/ Beneath(j, i)

\* C3: ".github" is descended into and every other directory whose name
\* begins with "." is skipped with its subtree: no file beneath one gets a
\* block, whatever the tree and the output path.
C3_HiddenDirsSkipped ==
    /\ \A k \in CallIds : \A d \in NodeIds :
           HiddenDir(d) => ~Under(calls[k].node, d)
    /\ \A d \in NodeIds :
           (pc = "exited" /\ exitCode = 0 /\ EntryName(env, d) = ".github" /\ Visited(d))
               => \A j \in NodeIds : (Present(env, j) /\ Beneath(j, d)) => Visited(j)

\* a regular file the claim C4 says must be in the artifact
MustBeIncluded(i) ==
    /\ Present(env, i)
    /\ Universe[i].kind = "file"
    /\ i # RootNode
    /\ SubSeq(EntryName(env, i), 1, 1) # "."
    /\ \A d \in NodeIds \ {RootNode} : HiddenDir(d) => ~Beneath(i, d)
    /\ i # ArtifactNode(env)
\* the artifact holds the complete block of call k
BlockInArtifact(k) ==
    /\ calls[k].ret = "nil"
    /\ calls[k].to <= Len(writer.file)
    /\ SubSeq(writer.file, calls[k].from + 1, calls[k].to)
         = "\n\n# BEGIN FILE: " \o calls[k].rel \o "\n\n" \o calls[k].data
           \o "\n\n# END FILE: " \o calls[k].rel \o "\n\n"

\* C4: in a run that exits 0 without any per-entry error, every regular file
\* with a non-hidden name that is not beneath a hidden directory other than
\* ".github" and is not the artifact has exactly one block in the artifact,
\* carrying its root-relative path.
C4_EveryFileIncluded ==
    (pc = "exited" /\ exitCode = 0 /\ log = <<"Successfully combined files">>) =>
        \A i \in NodeIds : MustBeIncluded(i) =>
            /\ Cardinality({k \in CallIds : calls[k].node = i}) = 1
            /\ \A k \in CallIds : calls[k].node = i =>
                   /\ calls[k].rel = JoinPath(Universe[i].comps)
                   /\ BlockInArtifact(k)

\* C5: when the artifact lies inside the walked tree, writeFileContent is
\* never called on it.
C5_NoSelfIngest ==
    ArtifactInTree(env) => \A k \in CallIds : calls[k].node # ArtifactNode(env)

\* the position of call k's entry in visited
VisitIndex(k) == CHOOSE n \in 1 .. Len(visited) : visited[n] = calls[k].node
\* after call k the walk went on: the next entry was visited, or none was left
WalkContinued(k) ==
    \/ VisitIndex(k) < Len(visited)
    \/ /\ ~walkErr
       /\ pc \in {"walk", "after", "exited"}
       /\ (pc = "walk") = (Len(todo) > 0)
OpenFailed(k) == calls[k].ret \in {"open", "errline"}
BeginMarker(k) == "\n\n# BEGIN FILE: " \o calls[k].rel \o "\n\n"
ErrorReadingLine(k) ==
    "# Error reading " \o calls[k].rel \o ": open " \o calls[k].path
    \o ": permission denied\n"

\* C6 as stated: when the open fails the sink receives the begin marker and
\* the one line "# Error reading <relativePath>: <error>\n", no end marker,
\* the call returns the open error and the walk goes on.
C6_OpenFailureAsStated ==
    \A k \in CallIds : OpenFailed(k) =>
        /\ Appended(k) = BeginMarker(k) \o ErrorReadingLine(k)
        /\ calls[k].ret = "open"
        /\ WalkContinued(k)

\* C6, amended: when the open fails and the error line can be written, the
\* sink receives the begin marker and that one line and the call returns the
\* open error; when writing the error line fails, the call returns the write
\* error and the sink holds the begin marker and a proper prefix of the line.
\* Either way no end marker is written and the walk goes on.
C6_OpenFailure ==
    \A k \in CallIds : OpenFailed(k) =>
        /\ calls[k].ret = "open" =>
               Appended(k) = BeginMarker(k) \o ErrorReadingLine(k)
        /\ calls[k].ret = "errline" =>
               /\ writer.err
               /\ IsPrefix(BeginMarker(k), Appended(k))
               /\ IsPrefix(Appended(k), BeginMarker(k) \o ErrorReadingLine(k))
               /\ Appended(k) # BeginMarker(k) \o ErrorReadingLine(k)
        /\ WalkContinued(k)

\* an open failure was followed by the visit of the next entry, and a run
\* in which the error line could not be written has ended
C6_Witness ==
    /\ \E k \in CallIds :
           calls[k].ret = "open" /\ VisitIndex(k) < Len(visited) /\ pc = "exited"

C6_WitnessWriteError ==
    \E k \in CallIds : calls[k].ret = "errline" /\ VisitIndex(k) < Len(visited)

\* the environment produces per-file errors only: unreadable files, read
\* failures, a link to a directory
OnlyPerFileFaults ==
    /\ env.fault.kind \in {"none", "open", "read"}
    /\ env.quota = NoQuota
    /\ env.link # "broken"
    /\ ~(\E k \in CallIds : calls[k].self)
PerFileError(k) == calls[k].ret \in {"open", "copy"}

C8_SinkFinalized ==
    (pc = "exited" /\ created) => (closed /\ Len(writer.buf) = 0)

EndMarker(k) == "\n\n# END FILE: " \o calls[k].rel \o "\n\n"
FullBlock(k) == BeginMarker(k) \o calls[k].data \o EndMarker(k)

RECURSIVE BlocksUpTo(_)
\* the complete blocks of the first n calls, one after the other
BlocksUpTo(n) == IF n = 0 THEN "" ELSE BlocksUpTo(n - 1) \o FullBlock(n)

\* the calls were made in depth-first pre-order
InVisitOrder == \A k \in CallIds : k > 1 => calls[k - 1].node < calls[k].node
\* every call's bytes directly follow those of the call before
Contiguous ==
    /\ Len(calls) > 0 => calls[1].from = 0 /\ calls[Len(calls)].to = Len(Sink)
    /\ \A k \in CallIds : k > 1 => calls[k].from = calls[k - 1].to

\* C9 as stated: at every point the sink holds the blocks of the files
\* serialized so far in visit order, each with begin marker, content and end
\* marker complete before the next begin marker.
C9_BlocksAsStated ==
    /\ InVisitOrder
    /\ Sink = BlocksUpTo(Len(calls))

\* C9, amended: at every point the sink is the concatenation, in visit
\* order, of one contiguous segment per file serialized so far; a call that
\* returned no error left the complete block, a call that failed left an
\* incomplete one: the begin marker followed by bytes of that call only, or
\* a prefix of the begin marker.
C9_Segments ==
    /\ InVisitOrder
    /\ Contiguous
    /\ \A k \in CallIds :
           IF calls[k].ret = "nil"
           THEN Appended(k) = FullBlock(k)
           ELSE \/ IsPrefix(BeginMarker(k), Appended(k))
                \/ IsPrefix(Appended(k), BeginMarker(k))

\* a failed call lies between two calls that succeeded
C9_Witness ==
    \E j, k, l \in CallIds :
        /\ j < k /\ k < l
        /\ calls[j].ret = "nil" /\ calls[k].ret = "open" /\ calls[l].ret = "nil"
        /\ Len(calls[l].data) > 0

\* the run can take a step: the guards of Start, Visit, VisitError and Finish
CanStep ==
    \/ pc = "start"
    \/ pc = "walk" /\ Len(todo) > 0
    \/ pc = "after"

\* C11: every run ends, also on a tree that holds the output artifact: it
\* completes the walk and the flush or stops on a fatal error.  So a run
\* that has not exited is never stuck in a step that does not end
\* (pc = "hung": a writeFileContent call whose copy never reaches the end
\* of its source and grows the output for ever).
C11_EveryRunEnds == pc = "exited" \/ CanStep

\* entry i, once its symbolic links are resolved, is a regular file
RegularFile(i) ==
    /\ Resolved(env, i) # 0
    /\ Universe[Resolved(env, i)].kind = "file"

\* C12: writeFileContent is invoked only for regular files with a name that
\* is not hidden: nothing is appended to the sink for an entry that is
\* neither a directory nor a regular file (a symbolic link to a directory),
\* nor for a file with a hidden name.
C12_OnlyRegularFilesSerialized ==
    /\ \A k \in CallIds :
           /\ RegularFile(calls[k].node)
           /\ SubSeq(EntryName(env, calls[k].node), 1, 1) # "."
    /\ Contiguous

\* t occurs in s
Contains(s, t) ==
    \E n \in 1 .. (Len(s) - Len(t) + 1) : SubSeq(s, n, n + Len(t) - 1) = t
\* the read of the file call k serialized is the one the environment fails
ReadFaultOf(k) ==
    /\ env.fault.kind = "read"
    /\ env.fault.node = Resolved(env, calls[k].node)

\* C13: when the copy of a file fails partway, writeFileContent returns the
\* copy error, the begin marker and the bytes copied so far stay in the sink,
\* neither an end marker nor an "# Error reading" line is written for the
\* file, and the walk goes on with the next entry.
C13_CopyFailure ==
    \A k \in CallIds : calls[k].ret = "copy" =>
        /\ IsPrefix(BeginMarker(k), Appended(k))
        /\ ~calls[k].self => IsPrefix(Appended(k), BeginMarker(k) \o calls[k].data)
        /\ (ReadFaultOf(k) /\ ~writer.err) =>
               Appended(k) = BeginMarker(k) \o SubSeq(calls[k].data, 1, env.fault.at)
        /\ ~Contains(Appended(k), "# END FILE: " \o calls[k].rel \o "\n")
        /\ ~Contains(Appended(k), "# Error reading " \o calls[k].rel \o ":")
        /\ WalkContinued(k)

\* a read failed after two bytes were copied and the next entry was visited
C13_Witness ==
    \E k \in CallIds :
        /\ calls[k].ret = "copy"
        /\ Len(Appended(k)) = Len(BeginMarker(k)) + 2
        /\ VisitIndex(k) < Len(visited)
        /\ ~writer.err

RECURSIVE OpenHandles(_)
\* the input handles the first n calls have left open
OpenHandles(n) == IF n = 0 THEN 0 ELSE OpenHandles(n - 1) + calls[n].open
\* call k got as far as os.Open and the open succeeded
OpenedInput(k) == calls[k].ret \in {"copy", "footer", "nil", "hang"}

\* C14: every input handle writeFileContent opens is closed before the call
\* returns, whatever the exit path, so at most one input handle is open at
\* any time and none is open between two calls or when the process ends.
C14_InputHandlesClosed ==
    /\ \A k \in CallIds : calls[k].ret # "hang" => calls[k].open = 0
    /\ OpenHandles(Len(calls)) <= 1
    /\ pc \in {"walk", "after", "exited"} => OpenHandles(Len(calls)) = 0

\* the run has ended after calls that opened their input and left through
\* the copy failure and through the success path
C14_Witness ==
    /\ pc = "exited"
    /\ \E k \in CallIds : calls[k].ret = "copy"
    /\ \E k \in CallIds : calls[k].ret = "nil"
    /\ \E k \in CallIds : calls[k].ret = "open"

\* some write of call k to the buffered sink failed
WriteFailed(k) == calls[k].werr

\* C15: a run exits with code 0 only if no write to the sink failed: once a
\* write of a marker, of content or of an error line fails, every later
\* write fails as well (a later call stops at its header and appends
\* nothing), the final flush fails, and the run ends with exit code 1
\* without logging success.
C15_WriteFailureFatal ==
    /\ \A k \in CallIds : WriteFailed(k) =>
           /\ calls[k].ret \in {"header", "errline", "copy", "footer"}
           /\ \A j \in CallIds : j > k =>
                  /\ calls[j].ret = "header"
                  /\ Appended(j) = ""
                  /\ WriteFailed(j)
    /\ (pc = "exited" /\ \E k \in CallIds : WriteFailed(k)) =>
           /\ exitCode = 1
           /\ writer.err
           /\ ~Logged("Successfully combined files")
    /\ (pc = "exited" /\ exitCode = 0) =>
           /\ ~writer.err
           /\ writer.buf = ""
           /\ Logged("Successfully combined files")

\* the run has ended after a write failed in one call and a later call was
\* still made, with no walk error to account for the exit code
C15_Witness ==
    /\ pc = "exited"
    /\ ~walkErr
    /\ \E k \in CallIds : WriteFailed(k) /\ k < Len(calls)

====
